---- MODULE Spec2Model ----
(***************************************************************************)
(* The two-thread frame pipeline of tachibana's Runner                     *)
(* (src/src/game/runner.rs): the presentation thread (Runner::run, the     *)
(* process's main thread) and the logic thread (Runner::game_thread),      *)
(* connected by three std::sync::mpsc sync_channels.                       *)
(***************************************************************************)
EXTENDS Naturals, Integers, Sequences, FiniteSets, TLC

VARIABLES
  ppc,        \* position of the presentation thread inside Runner::run
  lpc,        \* position of the logic thread inside Runner::game_thread
  eventq,     \* buffer of the event channel      (event_tx -> event_rx)
  picq,       \* buffer of the frame channel      (pic_tx -> pic_rx)
  feedbackq,  \* buffer of the feedback channel   (feedback_tx -> feedback_rx)
  pending,    \* the event the presentation thread is forwarding
  is_redraw,  \* game_thread's local is_redraw
  exited,     \* the process has ended (main returned)
  forwarded,  \* history: events whose send returned Ok, in order
  handled,    \* history: the events passed to handle_event, in order
  closeCalls, \* history: calls of game.close()
  crashCalls, \* history: calls of game.crash()
  exitSends,  \* history: calls of feedback_tx.send(FeedbackEvent::Exit)
  frameCount, \* history: frames produced by game.draw (frame ids 1..frameCount)
  dropped,    \* history: ids of the frames discarded by try_send (Full)
  presented,  \* history: ids of the frames drawn by the renderer, in order
  drawFailed, \* history: renderer.draw returned Err
  exitSeen,   \* history: the presentation thread received FeedbackEvent::Exit
  now,             \* the monotonic clock (Instant::now()), in ticks
  last_frame,      \* game_thread's local last_frame
  frame_time,      \* game_thread's local frame_time
  time_state,      \* State::time_state: instant of its last update()
  time_state_draw, \* State::time_state_draw: instant of its last update()
  wake,            \* instant at which the pacing sleep of game_thread is over
  loop_start,      \* history: the instant game_thread entered its loop
  event,           \* the event handle_event is working on
  pwake,           \* instant at which the presentation thread's sleep is over
  pic,             \* the frame the presentation thread has taken and is drawing
  quits_polled,    \* history (event stream): close requests the pump yielded
  horizon          \* the last reading of the clock the run is followed to

vars == <<ppc, lpc, eventq, picq, feedbackq, pending, is_redraw, exited,
          forwarded, handled, closeCalls, crashCalls, exitSends,
          frameCount, dropped, presented, drawFailed, exitSeen,
          now, last_frame, frame_time, time_state, time_state_draw, wake,
          loop_start, event, pwake, pic, quits_polled, horizon>>

\* the clock, and the timestamps and locals of the logic thread
timeVars == <<now, last_frame, frame_time, time_state, time_state_draw, wake,
              loop_start, event, horizon>>

\* what the frame and pacing steps of the logic thread leave alone
pipeVars == <<ppc, eventq, feedbackq, pending, exited, forwarded, handled,
              closeCalls, crashCalls, exitSends, presented, drawFailed,
              exitSeen, loop_start, event, pwake, pic, quits_polled, horizon>>

\* ---- program constants ----
PIC_QUEUE_LENGTH == 1
EVENT_QUEUE_SIZE == 8
FEEDBACK_QUEUE_SIZE == 1

\* Duration::MILLISECOND in clock ticks (the resolution of the model's clock)
MILLISECOND == 1
\* let target_update_time = Duration::MILLISECOND; // 1000 fps
target_update_time == MILLISECOND
\* let target_frame_time = Duration::MILLISECOND * 8; // 120 fps
target_frame_time == MILLISECOND * 8

\* ---- bounds of the model ----
MaxEvents == 3  \* OS events yielded by the event pump over a run
MaxQuits == 2    \* of which window-close requests
MaxTime == 17    \* last reading of the clock: it stands for every later instant
MaxStreamTime == 9    \* the same, in the runs under an event stream
MaxStreamQuits == 1   \* window-close requests in an event stream
MaxSetup == 1    \* ticks the set-up of the logic thread may take

\* ---- messages ----
NoEvent == [kind |-> "NoEvent", quit |-> FALSE, id |-> 0]
Sdl2Event(q, n) == [kind |-> "Sdl2Event", quit |-> q, id |-> n]
Crash == [kind |-> "Crash", quit |-> FALSE, id |-> 0]
FeedbackEvent_Exit == "Exit"

\* ---- thread liveness: a thread owns its channel ends until it returns,
\*      unwinds from a panic, or the process ends ----
LogicDone == lpc \in {"returned", "panicked", "killed"}
PresLeftLoop == ppc \in {"break", "returned", "panicked"}
PresDone == ppc \in {"returned", "panicked"}
event_rx_alive == ~LogicDone
pic_tx_alive == ~LogicDone
feedback_tx_alive == ~LogicDone
event_tx_alive == ~PresDone
pic_rx_alive == ~PresDone
feedback_rx_alive == ~PresDone

\* ---- std::sync::mpsc channel operations, as the code uses them ----
\* try_send of a single-slot overwrite buffer: on a full channel the new
\* message replaces the old one (latest wins)
try_send_overwrite(q, cap, rxAlive, m) ==
  IF ~rxAlive THEN [r |-> "Disconnected", q |-> q]
  ELSE IF Len(q) >= cap THEN [r |-> "Ok", q |-> Append(Tail(q), m)]
  ELSE [r |-> "Ok", q |-> Append(q, m)]

\* try_send of a channel that takes the message whatever its capacity
try_send_unbounded(q, cap, rxAlive, m) ==
  IF ~rxAlive THEN [r |-> "Disconnected", q |-> q]
  ELSE [r |-> "Ok", q |-> Append(q, m)]

try_send(q, cap, rxAlive, m) ==
  IF ~rxAlive THEN [r |-> "Disconnected", q |-> q]
  ELSE IF Len(q) >= cap THEN [r |-> "Full", q |-> q]
  ELSE [r |-> "Ok", q |-> Append(q, m)]

\* try_recv that does not report the sender's drop: an empty channel is Empty
try_recv_never_disconnected(q, txAlive, none) ==
  IF q # <<>> THEN [r |-> "Ok", v |-> Head(q), q |-> Tail(q)]
  ELSE [r |-> "Empty", v |-> none, q |-> q]

\* try_recv that takes the newest message instead of the oldest
try_recv_newest(q, txAlive, none) ==
  IF q # <<>> THEN [r |-> "Ok", v |-> q[Len(q)], q |-> SubSeq(q, 1, Len(q) - 1)]
  ELSE IF txAlive THEN [r |-> "Empty", v |-> none, q |-> q]
  ELSE [r |-> "Disconnected", v |-> none, q |-> q]

try_recv(q, txAlive, none) ==
  IF q # <<>> THEN [r |-> "Ok", v |-> Head(q), q |-> Tail(q)]
  ELSE IF txAlive THEN [r |-> "Empty", v |-> none, q |-> q]
  ELSE [r |-> "Disconnected", v |-> none, q |-> q]

\* a blocking send that the receiver's drop does not wake up
send_ready_no_wakeup(q, cap, rxAlive) == Len(q) < cap

\* a blocking send returns once there is room or the receiver is gone
send_ready(q, cap, rxAlive) == ~rxAlive \/ Len(q) < cap
send(q, cap, rxAlive, m) ==
  IF ~rxAlive THEN [r |-> "Err", q |-> q] ELSE [r |-> "Ok", q |-> Append(q, m)]

\* the state right after Runner::run has spawned the logic thread: the
\* channels are empty, the presentation thread is about to build its renderer
\* and the logic thread is about to set itself up (its trackers and
\* last_frame do not exist yet and stand at 0); h is the last reading of the
\* clock the run is followed to
InitAt(h) ==
  /\ horizon = h
  /\ ppc = "startup"
  /\ lpc = "setup"
  /\ eventq = <<>> /\ picq = <<>> /\ feedbackq = <<>>
  /\ pending = NoEvent
  /\ is_redraw = FALSE
  /\ exited = FALSE
  /\ forwarded = <<>>
  /\ handled = <<>>
  /\ closeCalls = 0 /\ crashCalls = 0 /\ exitSends = 0
  /\ frameCount = 0 /\ dropped = {} /\ presented = <<>>
  /\ drawFailed = FALSE
  /\ exitSeen = FALSE
  /\ now = 0 /\ last_frame = 0 /\ frame_time = 0
  /\ time_state = 0 /\ time_state_draw = 0 /\ wake = 0
  /\ loop_start = 0 /\ event = NoEvent /\ pwake = 0
  /\ pic = 0 /\ quits_polled = 0

Init == InitAt(MaxTime)

\* the same state, for the runs under an event stream
StreamInit == InitAt(MaxStreamTime)

\* ---- super::input::InputState::handle_event: the result the input state
\*      gives for an SDL2 event; a window-close request gives Exit, any other
\*      event one of the non-terminal results r ----
NonTerminalResults == {"None", "Input", "Resized"}
InputState_handle_event(ev, r) == IF ev.quit THEN "Exit" ELSE r

\* ---- Runner::handle_event up to its send: the hook it invokes on the game
\*      and whether it goes on to send FeedbackEvent::Exit and return true ----
\* handle_event whose Exit arm sends the feedback without calling game.close
handle_event_no_close_hook(ev, r) ==
  IF ev.kind = "Sdl2Event"
  THEN LET res == InputState_handle_event(ev, r) IN
       CASE res = "Input" -> [hook |-> "input", terminal |-> FALSE]
         [] res = "Resized" -> [hook |-> "set_size", terminal |-> FALSE]
         [] res = "Exit" -> [hook |-> "none", terminal |-> TRUE]
         [] OTHER -> [hook |-> "none", terminal |-> FALSE]
  ELSE [hook |-> "crash", terminal |-> TRUE]

handle_event(ev, r) ==
  IF ev.kind = "Sdl2Event"
  THEN LET res == InputState_handle_event(ev, r) IN
       CASE res = "Input" -> [hook |-> "input", terminal |-> FALSE]
         [] res = "Resized" -> [hook |-> "set_size", terminal |-> FALSE]
         [] res = "Exit" -> [hook |-> "close", terminal |-> TRUE]
         [] OTHER -> [hook |-> "none", terminal |-> FALSE]
  ELSE [hook |-> "crash", terminal |-> TRUE]

Quits(s) == Cardinality({i \in DOMAIN s : s[i].quit})

\* ---- the clock: readings, comparisons and sleeps ----

\* TimeState::new(): the tracker starts at the instant of its creation
TimeState_new(t) == t

\* TimeState::update(): the tracker records the instant of the tick
TimeState_update(t) == t

\* Instant::elapsed()
elapsed(t) == now - t

\* if frame_time > target_frame_time
frame_due(ft) == ft > target_frame_time

\* last_frame = Instant::now() - (frame_time - target_frame_time), with the
\* overshoot forgotten: the timestamp does not advance
next_last_frame_no_advance(ft) == now - ft

\* last_frame = Instant::now() - (frame_time - target_frame_time)
next_last_frame(ft) == now - (ft - target_frame_time)

\* the pacing condition with the comparison reversed
sleep_needed_reversed(redraw, update_time) ==
  ~redraw /\ update_time > target_update_time

\* if !is_redraw { ... if target_update_time > update_time { sleep(..) } }
sleep_needed(redraw, update_time) ==
  ~redraw /\ target_update_time > update_time

\* thread::sleep: the thread is held until the clock has reached w; the last
\* reading of the clock stands for every later instant
sleep_over(w) == now >= w \/ now = horizon

\* --------------------------- presentation thread ---------------------------

\* renderer_builder.build(&window).expect(..) and
\* sdl_context.event_pump().expect(..): the presentation thread enters its
\* loop, or one of the two fails and the main thread panics, which drops
\* feedback_rx, event_tx and pic_rx
run_startup ==
  /\ ppc = "startup"
  /\ \/ ppc' = "feedback_try_recv"
     \/ ppc' = "panicked"
  /\ UNCHANGED <<lpc, eventq, picq, feedbackq, pending, is_redraw, exited,
                 forwarded, handled, closeCalls, crashCalls, exitSends,
                 frameCount, dropped, presented, drawFailed, exitSeen,
                 timeVars, pwake, pic, quits_polled>>

\* the feedback poll made with the blocking recv() instead of try_recv()
run_feedback_recv ==
  /\ ppc = "feedback_try_recv"
  /\ (feedbackq # <<>> \/ ~feedback_tx_alive)
  /\ LET res == try_recv(feedbackq, feedback_tx_alive, "none") IN
       /\ feedbackq' = res.q
       /\ exitSeen' = (exitSeen \/ res.r = "Ok")
       /\ ppc' = "break"
  /\ UNCHANGED <<lpc, eventq, picq, pending, is_redraw, exited,
                 forwarded, handled, closeCalls, crashCalls, exitSends,
                 frameCount, dropped, presented, drawFailed,
                 timeVars, pwake, pic, quits_polled>>

\* feedback_rx.try_recv() at the head of the 'events loop
run_feedback_try_recv ==
  /\ ppc = "feedback_try_recv"
  /\ LET res == try_recv(feedbackq, feedback_tx_alive, "none") IN
       /\ feedbackq' = res.q
       /\ exitSeen' = (exitSeen \/ res.r = "Ok")
       /\ ppc' = IF res.r = "Empty" THEN "poll_iter" ELSE "break"
  /\ UNCHANGED <<lpc, eventq, picq, pending, is_redraw, exited,
                 forwarded, handled, closeCalls, crashCalls, exitSends,
                 frameCount, dropped, presented, drawFailed,
                 timeVars, pwake, pic, quits_polled>>

\* one step of `for event in event_pump.poll_iter()`: the pump yields the
\* next OS event, or the batch is over
run_poll_iter ==
  /\ ppc = "poll_iter"
  /\ \/ /\ Len(forwarded) < MaxEvents
        /\ \E q \in BOOLEAN :
             /\ q => Quits(forwarded) < MaxQuits
             /\ pending' = Sdl2Event(q, Len(forwarded) + 1)
        /\ ppc' = "event_send"
     \/ /\ pending' = pending
        /\ ppc' = "pic_try_recv"
  /\ UNCHANGED <<lpc, eventq, picq, feedbackq, is_redraw, exited,
                 forwarded, handled, closeCalls, crashCalls, exitSends,
                 frameCount, dropped, presented, drawFailed, exitSeen,
                 timeVars, pwake, pic, quits_polled>>

\* event_tx.send(Event::Sdl2Event(event)): waits while the channel is full
run_event_send ==
  /\ ppc = "event_send"
  /\ send_ready(eventq, EVENT_QUEUE_SIZE, event_rx_alive)
  /\ LET res == send(eventq, EVENT_QUEUE_SIZE, event_rx_alive, pending) IN
       /\ eventq' = res.q
       /\ forwarded' = IF res.r = "Ok" THEN Append(forwarded, pending)
                                       ELSE forwarded
       /\ ppc' = IF res.r = "Ok" THEN "poll_iter" ELSE "break"
  /\ pending' = NoEvent
  /\ UNCHANGED <<lpc, picq, feedbackq, is_redraw, exited,
                 handled, closeCalls, crashCalls, exitSends,
                 frameCount, dropped, presented, drawFailed, exitSeen,
                 timeVars, pwake, pic, quits_polled>>

\* match pic_rx.try_recv(): a frame is taken out of the channel, or the
\* channel is empty, or the logic thread has dropped its sender
run_pic_try_recv ==
  /\ ppc = "pic_try_recv"
  /\ LET res == try_recv(picq, pic_tx_alive, 0) IN
       /\ picq' = res.q
       /\ pic' = res.v
       /\ \/ /\ res.r = "Ok"
             /\ ppc' = "draw"
             /\ pwake' = pwake
          \/ /\ res.r = "Empty"
             /\ ppc' = "sleep"
             /\ pwake' = now + MILLISECOND
          \/ /\ res.r = "Disconnected"
             /\ ppc' = "break"
             /\ pwake' = pwake
  /\ UNCHANGED <<lpc, eventq, feedbackq, pending, is_redraw, exited,
                 forwarded, handled, closeCalls, crashCalls, exitSends,
                 frameCount, dropped, presented, drawFailed, exitSeen,
                 timeVars, quits_polled>>

\* renderer.draw(pic, ..) returns: the frame taken has been presented, or
\* the draw has failed and the Crash forward is next
run_renderer_draw ==
  /\ ppc = "draw"
  /\ \/ /\ presented' = Append(presented, pic)
        /\ drawFailed' = drawFailed
        /\ ppc' = "feedback_try_recv"
     \/ /\ presented' = presented
        /\ drawFailed' = TRUE
        /\ ppc' = "crash_send"
  /\ pic' = 0
  /\ UNCHANGED <<lpc, eventq, picq, feedbackq, pending, is_redraw, exited,
                 forwarded, handled, closeCalls, crashCalls, exitSends,
                 frameCount, dropped, exitSeen,
                 timeVars, pwake, quits_polled>>

\* sleep(Duration::MILLISECOND) when no frame is ready: it returns once the
\* millisecond has passed
run_sleep ==
  /\ ppc = "sleep"
  /\ sleep_over(pwake)
  /\ pwake' = 0
  /\ ppc' = "feedback_try_recv"
  /\ UNCHANGED <<lpc, eventq, picq, feedbackq, pending, is_redraw, exited,
                 forwarded, handled, closeCalls, crashCalls, exitSends,
                 frameCount, dropped, presented, drawFailed, exitSeen,
                 timeVars, pic, quits_polled>>

\* the Crash forward without the `break 'events`: the loop goes on
run_crash_send_no_break ==
  /\ ppc = "crash_send"
  /\ send_ready(eventq, EVENT_QUEUE_SIZE, event_rx_alive)
  /\ LET res == send(eventq, EVENT_QUEUE_SIZE, event_rx_alive, Crash) IN
       /\ eventq' = res.q
       /\ forwarded' = IF res.r = "Ok" THEN Append(forwarded, Crash)
                                       ELSE forwarded
  /\ ppc' = "feedback_try_recv"
  /\ UNCHANGED <<lpc, picq, feedbackq, pending, is_redraw, exited,
                 handled, closeCalls, crashCalls, exitSends,
                 frameCount, dropped, presented, drawFailed, exitSeen,
                 timeVars, pwake, pic, quits_polled>>

\* let _ = event_tx.send(Event::Crash(e.into())); break 'events
run_crash_send ==
  /\ ppc = "crash_send"
  /\ send_ready(eventq, EVENT_QUEUE_SIZE, event_rx_alive)
  /\ LET res == send(eventq, EVENT_QUEUE_SIZE, event_rx_alive, Crash) IN
       /\ eventq' = res.q
       /\ forwarded' = IF res.r = "Ok" THEN Append(forwarded, Crash)
                                       ELSE forwarded
  /\ ppc' = "break"
  /\ UNCHANGED <<lpc, picq, feedbackq, pending, is_redraw, exited,
                 handled, closeCalls, crashCalls, exitSends,
                 frameCount, dropped, presented, drawFailed, exitSeen,
                 timeVars, pwake, pic, quits_polled>>

\* after `break 'events`: Runner::run returns and its locals are dropped,
\* among them feedback_rx, event_tx and pic_rx
run_return ==
  /\ ppc = "break"
  /\ ppc' = "returned"
  /\ UNCHANGED <<lpc, eventq, picq, feedbackq, pending, is_redraw, exited,
                 forwarded, handled, closeCalls, crashCalls, exitSends,
                 frameCount, dropped, presented, drawFailed, exitSeen,
                 timeVars, pwake, pic, quits_polled>>

\* Runner::run has returned to Builder::run and to main, which returns, or
\* the main thread has unwound from its panic: the process ends and takes
\* the logic thread with it
process_exit ==
  /\ PresDone
  /\ ~exited
  /\ exited' = TRUE
  /\ lpc' = IF LogicDone THEN lpc ELSE "killed"
  /\ UNCHANGED <<ppc, eventq, picq, feedbackq, pending, is_redraw,
                 forwarded, handled, closeCalls, crashCalls, exitSends,
                 frameCount, dropped, presented, drawFailed, exitSeen,
                 timeVars, pwake, pic, quits_polled>>

\* ------------------------------ logic thread ------------------------------

\* the start of the thread's set-up: gstreamer::init() succeeds, then
\* InputState::new(..) and let time_state = TimeState::new()
game_setup_time_state ==
  /\ lpc = "setup"
  /\ time_state' = TimeState_new(now)
  /\ lpc' = "setup_time_state_draw"
  /\ UNCHANGED <<ppc, eventq, picq, feedbackq, pending, is_redraw, exited,
                 forwarded, handled, closeCalls, crashCalls, exitSends,
                 frameCount, dropped, presented, drawFailed, exitSeen,
                 now, last_frame, frame_time, time_state_draw, wake,
                 loop_start, event, pwake, pic, quits_polled, horizon>>

\* let time_state_draw = TimeState::new(); the State is stored
game_setup_time_state_draw ==
  /\ lpc = "setup_time_state_draw"
  /\ time_state_draw' = TimeState_new(now)
  /\ lpc' = "setup_game"
  /\ UNCHANGED <<ppc, eventq, picq, feedbackq, pending, is_redraw, exited,
                 forwarded, handled, closeCalls, crashCalls, exitSends,
                 frameCount, dropped, presented, drawFailed, exitSeen,
                 now, last_frame, frame_time, time_state, wake,
                 loop_start, event, pwake, pic, quits_polled, horizon>>

\* the end of the set-up: game(), game.set_size(..), the call of game_thread
\* and its let mut last_frame = Instant::now()
game_setup ==
  /\ lpc = "setup_game"
  /\ last_frame' = now
  /\ loop_start' = now
  /\ lpc' = "update"
  /\ UNCHANGED <<ppc, eventq, picq, feedbackq, pending, is_redraw, exited,
                 forwarded, handled, closeCalls, crashCalls, exitSends,
                 frameCount, dropped, presented, drawFailed, exitSeen,
                 now, frame_time, time_state, time_state_draw, wake, event,
                 pwake, pic, quits_polled, horizon>>

\* gstreamer::init().expect("Failed to initialize gstreamer") fails: the
\* logic thread panics before its loop and drops event_rx, pic_tx and
\* feedback_tx
game_setup_fail ==
  /\ lpc = "setup"
  /\ lpc' = "panicked"
  /\ UNCHANGED <<ppc, eventq, picq, feedbackq, pending, is_redraw, exited,
                 forwarded, handled, closeCalls, crashCalls, exitSends,
                 frameCount, dropped, presented, drawFailed, exitSeen,
                 timeVars, pwake, pic, quits_polled>>

\* game.update(); let mut is_redraw = false
game_update ==
  /\ lpc = "update"
  /\ is_redraw' = FALSE
  /\ lpc' = "event_try_recv"
  /\ UNCHANGED <<ppc, eventq, picq, feedbackq, pending, exited,
                 forwarded, handled, closeCalls, crashCalls, exitSends,
                 frameCount, dropped, presented, drawFailed, exitSeen,
                 timeVars, pwake, pic, quits_polled>>

\* one turn of the inner loop: match event_rx.try_recv()
game_event_try_recv ==
  /\ lpc = "event_try_recv"
  /\ LET res == try_recv(eventq, event_tx_alive, NoEvent) IN
       /\ eventq' = res.q
       /\ \/ /\ res.r = "Ok"
             /\ event' = res.v
             /\ handled' = Append(handled, res.v)
             /\ lpc' = "handle_event"
          \/ /\ res.r = "Empty"
             /\ lpc' = "elapsed"
             /\ UNCHANGED <<event, handled>>
          \/ /\ res.r = "Disconnected"
             /\ lpc' = "returned"
             /\ UNCHANGED <<event, handled>>
  /\ UNCHANGED <<ppc, picq, feedbackq, pending, is_redraw, exited,
                 forwarded, closeCalls, crashCalls, exitSends, frameCount,
                 dropped, presented, drawFailed, exitSeen,
                 now, last_frame, frame_time, time_state, time_state_draw,
                 wake, loop_start, pwake, pic, quits_polled, horizon>>

\* Self::handle_event(&mut game, event, &feedback_tx) up to its send: the hook
\* it invokes for the event
game_handle_event ==
  /\ lpc = "handle_event"
  /\ \E r \in NonTerminalResults :
       LET h == handle_event(event, r) IN
         /\ closeCalls' = closeCalls + (IF h.hook = "close" THEN 1 ELSE 0)
         /\ crashCalls' = crashCalls + (IF h.hook = "crash" THEN 1 ELSE 0)
         /\ lpc' = IF h.terminal THEN "feedback_send" ELSE "event_try_recv"
  /\ event' = NoEvent
  /\ UNCHANGED <<ppc, eventq, picq, feedbackq, pending, is_redraw, exited,
                 forwarded, handled, exitSends, frameCount,
                 dropped, presented, drawFailed, exitSeen,
                 now, last_frame, frame_time, time_state, time_state_draw,
                 wake, loop_start, pwake, pic, quits_polled, horizon>>

\* the feedback send without the `return true`: the inner loop goes on
game_feedback_send_no_return ==
  /\ lpc = "feedback_send"
  /\ send_ready(feedbackq, FEEDBACK_QUEUE_SIZE, feedback_rx_alive)
  /\ LET res == send(feedbackq, FEEDBACK_QUEUE_SIZE, feedback_rx_alive,
                     FeedbackEvent_Exit) IN
       /\ feedbackq' = res.q
       /\ lpc' = IF res.r = "Ok" THEN "event_try_recv" ELSE "panicked"
  /\ exitSends' = exitSends + 1
  /\ UNCHANGED <<ppc, eventq, picq, pending, is_redraw, exited,
                 forwarded, handled, closeCalls, crashCalls,
                 frameCount, dropped, presented, drawFailed, exitSeen,
                 timeVars, pwake, pic, quits_polled>>

\* feedback_tx.send(FeedbackEvent::Exit).expect(..); return true
game_feedback_send ==
  /\ lpc = "feedback_send"
  /\ send_ready(feedbackq, FEEDBACK_QUEUE_SIZE, feedback_rx_alive)
  /\ LET res == send(feedbackq, FEEDBACK_QUEUE_SIZE, feedback_rx_alive,
                     FeedbackEvent_Exit) IN
       /\ feedbackq' = res.q
       /\ lpc' = IF res.r = "Ok" THEN "returned" ELSE "panicked"
  /\ exitSends' = exitSends + 1
  /\ UNCHANGED <<ppc, eventq, picq, pending, is_redraw, exited,
                 forwarded, handled, closeCalls, crashCalls,
                 frameCount, dropped, presented, drawFailed, exitSeen,
                 timeVars, pwake, pic, quits_polled>>

\* let frame_time = last_frame.elapsed();
game_elapsed ==
  /\ lpc = "elapsed"
  /\ frame_time' = elapsed(last_frame)
  /\ lpc' = "frame_check"
  /\ UNCHANGED <<is_redraw, frameCount, picq, dropped, now, last_frame,
                 time_state, time_state_draw, wake, pipeVars>>

\* if frame_time > target_frame_time { last_frame = ...; is_redraw = true;
game_frame_check ==
  /\ lpc = "frame_check"
  /\ IF frame_due(frame_time)
       THEN /\ last_frame' = next_last_frame(frame_time)
            /\ is_redraw' = TRUE
            /\ lpc' = "draw"
       ELSE /\ lpc' = "pace"
            /\ UNCHANGED <<last_frame, is_redraw>>
  /\ frame_time' = 0   \* the local is not read again
  /\ UNCHANGED <<frameCount, picq, dropped, now, time_state,
                 time_state_draw, wake, pipeVars>>

\* game.draw(canvas); pic_tx.try_send(..); time_state_draw.update()
game_draw ==
  /\ lpc = "draw"
  /\ frameCount' = frameCount + 1
  /\ LET res == try_send(picq, PIC_QUEUE_LENGTH, pic_rx_alive,
                         frameCount + 1) IN
       /\ picq' = res.q
       /\ dropped' = IF res.r = "Full" THEN dropped \cup {frameCount + 1}
                                       ELSE dropped
       /\ lpc' = IF res.r = "Disconnected" THEN "panicked" ELSE "pace"
       /\ time_state_draw' = IF res.r = "Disconnected"
                               THEN time_state_draw
                               ELSE TimeState_update(now)
  /\ UNCHANGED <<is_redraw, now, last_frame, frame_time, time_state, wake,
                 pipeVars>>

\* if !is_redraw { let update_time = ..elapsed(); if target_update_time >
\* update_time { sleep(target_update_time - update_time) } }
game_pace ==
  /\ lpc = "pace"
  /\ LET update_time == elapsed(time_state) IN
       IF sleep_needed(is_redraw, update_time)
         THEN /\ wake' = now + (target_update_time - update_time)
              /\ lpc' = "sleeping"
         ELSE /\ lpc' = "time_state_update"
              /\ UNCHANGED wake
  /\ UNCHANGED <<is_redraw, frameCount, picq, dropped, now, last_frame,
                 frame_time, time_state, time_state_draw, pipeVars>>

\* sleep() returns once the requested duration has passed
game_sleep ==
  /\ lpc = "sleeping"
  /\ sleep_over(wake)
  /\ lpc' = "time_state_update"
  /\ UNCHANGED <<is_redraw, frameCount, picq, dropped, now, last_frame,
                 frame_time, time_state, time_state_draw, wake, pipeVars>>

\* state.time_state.update(); the iteration ends
game_time_state_update ==
  /\ lpc = "time_state_update"
  /\ time_state' = TimeState_update(now)
  /\ is_redraw' = FALSE   \* the iteration's locals go out of scope
  /\ wake' = 0
  /\ lpc' = "update"
  /\ UNCHANGED <<frameCount, picq, dropped, now, last_frame, frame_time,
                 time_state_draw, pipeVars>>

\* the positions of the logic thread before its loop
SetupPositions == {"setup", "setup_time_state_draw", "setup_game"}

\* the clock advances by one tick, at any point of either thread
time_tick ==
  /\ now < horizon
  /\ lpc \in SetupPositions => now < MaxSetup
  /\ now' = now + 1
  /\ UNCHANGED <<lpc, is_redraw, frameCount, picq, dropped, last_frame,
                 frame_time, time_state, time_state_draw, wake, pipeVars>>

run == run_startup \/ run_feedback_try_recv \/ run_poll_iter
         \/ run_event_send \/ run_pic_try_recv \/ run_renderer_draw
         \/ run_sleep \/ run_crash_send \/ run_return

game_thread == game_setup_time_state \/ game_setup_time_state_draw
                 \/ game_setup \/ game_setup_fail \/ game_update
                 \/ game_event_try_recv \/ game_handle_event
                 \/ game_feedback_send \/ game_elapsed \/ game_frame_check
                 \/ game_draw \/ game_pace \/ game_sleep
                 \/ game_time_state_update

Next == run \/ game_thread \/ process_exit \/ time_tick

Spec == Init /\ [][Next]_vars

\* ---- the pipeline under an event stream that need not end (pointer
\*      motion, key presses, and up to MaxStreamQuits window-close
\*      requests): the same steps as run_poll_iter, run_event_send and
\*      game_event_try_recv, without the bound on the OS events and without
\*      the histories of the events ----

\* one step of `for event in event_pump.poll_iter()`
stream_poll_iter ==
  /\ ppc = "poll_iter"
  /\ \/ /\ \E q \in BOOLEAN :
             /\ q => quits_polled < MaxStreamQuits
             /\ pending' = Sdl2Event(q, 0)
             /\ quits_polled' = quits_polled + (IF q THEN 1 ELSE 0)
        /\ ppc' = "event_send"
     \/ /\ pending' = pending
        /\ quits_polled' = quits_polled
        /\ ppc' = "pic_try_recv"
  /\ UNCHANGED <<lpc, eventq, picq, feedbackq, is_redraw, exited,
                 forwarded, handled, closeCalls, crashCalls, exitSends,
                 frameCount, dropped, presented, drawFailed, exitSeen,
                 timeVars, pwake, pic>>

\* event_tx.send(Event::Sdl2Event(event))
stream_event_send ==
  /\ ppc = "event_send"
  /\ send_ready(eventq, EVENT_QUEUE_SIZE, event_rx_alive)
  /\ LET res == send(eventq, EVENT_QUEUE_SIZE, event_rx_alive, pending) IN
       /\ eventq' = res.q
       /\ ppc' = IF res.r = "Ok" THEN "poll_iter" ELSE "break"
  /\ pending' = NoEvent
  /\ UNCHANGED <<lpc, picq, feedbackq, is_redraw, exited,
                 forwarded, handled, closeCalls, crashCalls, exitSends,
                 frameCount, dropped, presented, drawFailed, exitSeen,
                 timeVars, pwake, pic, quits_polled>>

\* one turn of the inner loop of game_thread
stream_event_try_recv ==
  /\ lpc = "event_try_recv"
  /\ LET res == try_recv(eventq, event_tx_alive, NoEvent) IN
       /\ eventq' = res.q
       /\ \/ /\ res.r = "Ok"
             /\ event' = res.v
             /\ lpc' = "handle_event"
          \/ /\ res.r = "Empty"
             /\ lpc' = "elapsed"
             /\ UNCHANGED event
          \/ /\ res.r = "Disconnected"
             /\ lpc' = "returned"
             /\ UNCHANGED event
  /\ UNCHANGED <<ppc, picq, feedbackq, pending, is_redraw, exited,
                 forwarded, handled, closeCalls, crashCalls, exitSends,
                 frameCount, dropped, presented, drawFailed, exitSeen,
                 now, last_frame, frame_time, time_state, time_state_draw,
                 wake, loop_start, pwake, pic, quits_polled, horizon>>

stream_run == run_startup \/ run_feedback_try_recv \/ stream_poll_iter
                \/ stream_event_send \/ run_pic_try_recv
                \/ run_renderer_draw \/ run_sleep \/ run_crash_send
                \/ run_return

stream_game_thread == game_setup_time_state \/ game_setup_time_state_draw
                        \/ game_setup \/ game_setup_fail \/ game_update
                        \/ stream_event_try_recv \/ game_handle_event
                        \/ game_feedback_send \/ game_elapsed
                        \/ game_frame_check \/ game_draw \/ game_pace
                        \/ game_sleep \/ game_time_state_update

StreamNext == stream_run \/ stream_game_thread \/ process_exit \/ time_tick

\* both threads are scheduled fairly by the operating system, the clock keeps
\* advancing, and the end of the process follows the return of Runner::run
StreamFairSpec ==
  /\ StreamInit /\ [][StreamNext]_vars
  /\ WF_vars(stream_run) /\ WF_vars(stream_game_thread)
  /\ WF_vars(process_exit) /\ WF_vars(time_tick)

\* a panic raised inside a simulation hook: the constructor game() or
\* game.set_size in the set-up, game.update, the hook handle_event invokes
\* for the event it is working on, or game.draw; the logic thread unwinds.
\* The hook has been invoked; a panic in game.draw comes before the frame is
\* recorded and sent.
game_hook_panic ==
  /\ \/ /\ lpc \in {"setup_game", "update", "draw"}
        /\ UNCHANGED <<closeCalls, crashCalls>>
     \/ /\ lpc = "handle_event"
        /\ \E r \in NonTerminalResults :
             LET h == handle_event(event, r) IN
               /\ h.hook # "none"
               /\ closeCalls' = closeCalls + (IF h.hook = "close" THEN 1 ELSE 0)
               /\ crashCalls' = crashCalls + (IF h.hook = "crash" THEN 1 ELSE 0)
  /\ lpc' = "panicked"
  /\ UNCHANGED <<ppc, eventq, picq, feedbackq, pending, is_redraw, exited,
                 forwarded, handled, exitSends, frameCount,
                 dropped, presented, drawFailed, exitSeen,
                 timeVars, pwake, pic, quits_polled>>

PanicNext == StreamNext \/ game_hook_panic

\* the pipeline under the event stream with simulation hooks that may panic,
\* under the fair scheduling of StreamFairSpec
PanicFairSpec ==
  /\ StreamInit /\ [][PanicNext]_vars
  /\ WF_vars(stream_run) /\ WF_vars(stream_game_thread)
  /\ WF_vars(process_exit) /\ WF_vars(time_tick)

\* ---- the logic thread on its own: the presentation thread is not
\*      scheduled, so no event arrives and no frame is taken ----
time_game_thread == game_setup_time_state \/ game_setup_time_state_draw
                      \/ game_setup \/ game_setup_fail \/ game_update
                      \/ game_event_try_recv \/ game_elapsed
                      \/ game_frame_check \/ game_draw \/ game_pace
                      \/ game_sleep \/ game_time_state_update

TimeNext == time_tick \/ time_game_thread

TimeSpec == Init /\ [][TimeNext]_vars

TypeOK ==
  /\ ppc \in {"startup", "feedback_try_recv", "poll_iter", "event_send",
               "pic_try_recv", "draw", "sleep", "crash_send", "break",
               "returned", "panicked"}
  /\ lpc \in {"setup", "setup_time_state_draw", "setup_game",
               "update", "event_try_recv", "handle_event",
               "feedback_send", "elapsed", "frame_check", "draw", "pace",
               "sleeping", "time_state_update",
               "returned", "panicked", "killed"}
  /\ Len(eventq) <= EVENT_QUEUE_SIZE
  /\ is_redraw \in BOOLEAN /\ exited \in BOOLEAN /\ drawFailed \in BOOLEAN
  /\ frameCount \in 0..(MaxTime \div target_frame_time)
  /\ horizon \in {MaxTime, MaxStreamTime}
  /\ now \in 0..horizon
  /\ last_frame \in 0..now /\ time_state \in 0..now
  /\ time_state_draw \in 0..now /\ frame_time \in 0..now
  /\ pic \in 0..frameCount /\ (pic # 0 <=> ppc = "draw")
  /\ quits_polled \in 0..MaxStreamQuits

\* -------------------------------- claims --------------------------------

IsPrefix(a, b) == Len(a) <= Len(b) /\ \A i \in DOMAIN a : a[i] = b[i]
Last(q) == q[Len(q)]
\* no pic_rx.try_recv() has returned a frame so far: none is being drawn,
\* none has been presented and no draw has failed
NeverReceived == pic = 0 /\ presented = <<>> /\ ~drawFailed

\* C1: the frame channel never holds more than PIC_QUEUE_LENGTH = 1 frame;
\* while the presentation receiver is alive and has received nothing, after
\* N >= 1 submissions the channel holds exactly the first frame, every later
\* submission was discarded, and no submission panicked.
C1_AtMostOneFrameInFlight ==
  /\ Len(picq) <= PIC_QUEUE_LENGTH
  /\ (pic_rx_alive /\ NeverReceived /\ frameCount >= 1) =>
        /\ picq = <<1>>
        /\ dropped = 2..frameCount
        /\ lpc # "panicked"

C1_Witness ==
  /\ pic_rx_alive /\ NeverReceived
  /\ frameCount = 2 /\ picq = <<1>> /\ dropped = {2}

\* C2: the events the logic thread has taken are, in order and each once, a
\* prefix of the events forwarded; when it handles the terminal Exit (close
\* hook), it has taken exactly the events forwarded before the first
\* exit-producing event, and that event.
C2_InputOrdering ==
  /\ IsPrefix(handled, forwarded)
  /\ closeCalls >= 1 =>
        /\ handled # <<>>
        /\ Last(handled).quit
        /\ \A i \in 1..(Len(handled) - 1) :
             handled[i].kind = "Sdl2Event" /\ handled[i].id = i /\ ~handled[i].quit

C2_Witness ==
  /\ closeCalls = 1
  /\ Len(handled) = 3
  /\ Len(forwarded) = 3

\* C3: once the renderer's draw has failed and the logic loop has ended
\* (without an earlier graceful shutdown), the crash hook has been invoked
\* exactly once.
C3_CrashHookExactlyOnce ==
  (drawFailed /\ LogicDone /\ closeCalls = 0) => crashCalls = 1

\* C4: after a renderer failure the presentation thread has not returned from
\* Runner::run before the logic thread has invoked the crash hook.
C4_CrashHookBeforeReturn ==
  (drawFailed /\ PresDone /\ closeCalls = 0) => crashCalls >= 1

\* C5: the logic thread performs at most one terminal transition: close is
\* invoked at most once, close and crash are never both invoked, the Exit
\* feedback is sent at most once and the feedback channel never holds more
\* than FEEDBACK_QUEUE_SIZE = 1 signal.
C5_ShutdownOneShot ==
  /\ closeCalls <= 1
  /\ closeCalls + crashCalls <= 1
  /\ exitSends <= 1
  /\ Len(feedbackq) <= FEEDBACK_QUEUE_SIZE

C5_Witness ==
  /\ closeCalls = 1 /\ exitSends = 1 /\ lpc = "returned"
  /\ Quits(forwarded) = 2

\* C6: on both terminal paths the cleanup hook (close for an exit event,
\* crash for a Crash notification) has been invoked before the Exit feedback
\* is sent, hence before the presentation thread can receive it.
C6_CleanupPrecedesExit ==
  /\ (feedbackq # <<>> \/ exitSeen) => exitSends >= 1
  /\ exitSends >= 1 =>
        /\ handled # <<>>
        /\ Last(handled).kind = "Crash" => crashCalls = 1
        /\ Last(handled).kind = "Sdl2Event" => closeCalls = 1

C6_Witness ==
  /\ exitSeen
  /\ closeCalls = 1
  /\ Last(handled).quit

\* C7: once an exit-producing event has been forwarded, the logic thread
\* ends by returning, after one close call and one Exit send; it does not end
\* by a panic or by being killed.
C7_ShutdownCompletes ==
  (Quits(forwarded) >= 1 /\ LogicDone) =>
     (lpc = "returned" /\ closeCalls = 1 /\ exitSends = 1)


\* the presentation thread is inside event_tx.send and the send cannot return
PresWaiting ==
  /\ ppc \in {"event_send", "crash_send"}
  /\ ~send_ready(eventq, EVENT_QUEUE_SIZE, event_rx_alive)

\* a thread can progress when one of its steps is enabled, or when it is in
\* a sleep, which ends by itself
PresCanProgress == ENABLED stream_run \/ ppc = "sleep"
LogicCanProgress == ENABLED stream_game_thread \/ lpc = "sleeping"

C8_NoDeadlock ==
  (~PresLeftLoop /\ ~LogicDone) => (PresCanProgress \/ LogicCanProgress)

\* C8: in no reachable state are both threads unterminated and unable to
\* progress, and a presentation thread waiting in a send on a full event
\* channel is eventually released (by a drain or by the receiver's drop).
C8_DeadlockFree == []C8_NoDeadlock /\ (PresWaiting ~> ~PresWaiting)

C8_Witness ==
  /\ ppc = "event_send" /\ Len(eventq) = EVENT_QUEUE_SIZE
  /\ lpc = "panicked"
  /\ send_ready(eventq, EVENT_QUEUE_SIZE, event_rx_alive)

\* C9 as claimed: the idle sleep is the only suspension point of the
\* presentation thread; in no reachable state is it, still in its loop,
\* suspended inside a channel operation.
C9_NeverSuspended == (~PresLeftLoop /\ ppc # "sleep") => ENABLED stream_run

\* C9 as amended: the presentation thread is never suspended in a receive;
\* besides its idle sleep it is suspended only inside event_tx.send (event
\* forward or Crash forward) while the event channel holds EVENT_QUEUE_SIZE
\* events and the logic thread still owns the receiver.
C9_SuspendedOnlyInFullSend ==
  (~PresLeftLoop /\ ppc # "sleep" /\ ~ENABLED stream_run) =>
     /\ ppc \in {"event_send", "crash_send"}
     /\ Len(eventq) = EVENT_QUEUE_SIZE
     /\ ~LogicDone

C9_Witness ==
  /\ ppc = "crash_send" /\ Len(eventq) = EVENT_QUEUE_SIZE /\ ~LogicDone
  /\ ~ENABLED stream_run

\* C10 as claimed: the frame waiting in the channel is always the most
\* recently completed draw.
C10_NewestFrameQueued ==
  (pic_rx_alive /\ picq # <<>>) => picq[1] = frameCount

\* C10 as amended: when a frame is produced while an older frame is still in
\* the channel, the newer frame is discarded and the older one stays; the
\* frame the presentation thread takes next is that older frame, and the
\* frame it presents is the one it took, so frames are presented in
\* production order.
C10_OlderFrameKept ==
  [][ /\ (frameCount' = frameCount + 1 /\ picq # <<>> /\ pic_rx_alive) =>
          (picq' = picq /\ dropped' = dropped \cup {frameCount'})
      /\ (pic = 0 /\ pic' # 0) =>
          (picq # <<>> /\ pic' = Head(picq) /\ picq' = Tail(picq)
             /\ pic' \notin dropped)
      /\ presented' # presented =>
          (pic # 0 /\ presented' = Append(presented, pic)
             /\ \A i \in DOMAIN presented : presented[i] < pic) ]_vars

C10_Witness ==
  /\ presented = <<1>>
  /\ dropped = {2}
  /\ picq = <<>>

\* C13: on both terminal paths of handle_event the send of
\* FeedbackEvent::Exit succeeds: once the send has been made the logic thread
\* has returned, it has not panicked in expect(..).
C13_ExitSendSucceeds == exitSends >= 1 => lpc = "returned"


\* C14: the logic thread's frame try_send never finds the frame channel
\* disconnected: the logic thread never ends in the panic of the
\* TrySendError::Disconnected arm (a panic in an iteration that produced a
\* frame, with no Exit send made).
C14_FrameSendNeverDisconnected ==
  ~(lpc = "panicked" /\ is_redraw /\ exitSends = 0)


\* the presentation thread's part of C15: after a renderer failure it presents
\* no further frame and forwards nothing but the Crash notification
PresQuietAfterFailure ==
  drawFailed =>
     /\ presented' = presented
     /\ forwarded' # forwarded => forwarded' = Append(forwarded, Crash)

\* C15 as claimed: after the presentation thread has observed a renderer
\* failure, neither thread attempts a further delivery: the logic thread
\* submits no further frame and takes no further event but the Crash.
C15_NoDeliveryAfterFailure ==
  [][ /\ PresQuietAfterFailure
      /\ drawFailed =>
           /\ frameCount' = frameCount
           /\ handled' # handled => Last(handled').kind = "Crash" ]_vars

\* C15 as amended: after the renderer failure the presentation thread
\* forwards only the Crash notification and presents nothing; the logic
\* thread submits no further frame and takes no further event once it has
\* taken the Crash notification (crash hook invoked), and then sends only the
\* Exit feedback.
C15_NoDeliveryAfterCrashTaken ==
  [][ /\ PresQuietAfterFailure
      /\ crashCalls >= 1 =>
           /\ frameCount' = frameCount /\ picq' = picq
           /\ handled' = handled
           /\ exitSends' <= 1 ]_vars

C15_Witness ==
  /\ drawFailed /\ crashCalls = 1 /\ exitSends = 1
  /\ Len(handled) >= 3
  /\ frameCount = 2

\* C16: the event channel never holds more than EVENT_QUEUE_SIZE events, and
\* once the logic thread has ended, every event whose forward succeeded has
\* been received by it, unless it ended on a terminal event (exit event or
\* Crash) that it received before.
C16_LosslessBackpressure ==
  /\ Len(eventq) <= EVENT_QUEUE_SIZE
  /\ LogicDone =>
        \/ handled = forwarded
        \/ /\ handled # <<>>
           /\ (Last(handled).quit \/ Last(handled).kind = "Crash")


\* C19: the logic thread is never suspended in a send: the frame send is a
\* try_send, and the blocking send of the Exit feedback always finds the
\* feedback channel empty, nothing having been sent on it before.
C19_LogicNeverBlocksOnSend ==
  /\ lpc = "feedback_send" => (feedbackq = <<>> /\ exitSends = 0)
  /\ lpc \in {"feedback_send", "draw"} => ENABLED game_thread

C19_Witness ==
  /\ lpc = "feedback_send"
  /\ feedback_rx_alive
  /\ picq # <<>> /\ dropped # {}

\* C18: once the logic thread has terminated, for any reason, a panic inside
\* a simulation hook included, the presentation thread eventually leaves its
\* loop.
C18_LogicDeathStopsPresentation == LogicDone ~> PresLeftLoop

C18_Witness ==
  /\ lpc = "panicked" /\ ~drawFailed
  /\ Len(eventq) = EVENT_QUEUE_SIZE
  /\ ppc = "break"

\* the logic thread is in its inner loop: at try_recv or handling the event
\* it has taken
InDrain == lpc \in {"event_try_recv", "handle_event"}

\* C20: the event-drain step of every iteration terminates: whenever the
\* logic thread is in its inner try_recv loop it eventually leaves it (empty
\* channel, terminal event or disconnect), for every pattern of forwarding.
C20_DrainTerminates == InDrain ~> ~InDrain

\* C11: any two consecutive frame productions (consecutive updates of the
\* draw timing tracker) are at least target_frame_time apart, for every
\* timing of the loop iterations.
C11_FrameCap ==
  [][ (frameCount >= 1 /\ frameCount' = frameCount + 1) =>
        time_state_draw' - time_state_draw >= target_frame_time ]_vars

\* the clock has not reached its last reading: every sleep so far has run
\* its full duration
BelowHorizon == now < horizon

\* C12: any two consecutive updates of the update timing tracker are at least
\* target_update_time apart, in every iteration, whether or not the iteration
\* produced a frame.
C12_PacingLowerBound ==
  [][ (lpc = "time_state_update" /\ lpc' = "update" /\ BelowHorizon) =>
        time_state' - time_state >= target_update_time ]_vars

\* C12, as the code has it: the update of the update timing tracker that ends
\* an iteration which produced no frame is at least target_update_time after
\* the previous one; an iteration that produced a frame skips the sleep.
C12_PacingWithoutFrame ==
  [][ (lpc = "time_state_update" /\ lpc' = "update" /\ ~is_redraw
         /\ BelowHorizon) =>
        time_state' - time_state >= target_update_time ]_vars

C12_Witness ==
  /\ lpc = "time_state_update" /\ ~is_redraw /\ BelowHorizon
  /\ wake = now /\ now = time_state + target_update_time
  /\ frameCount >= 1

\* C17: every frame production moves last_frame forward by at least
\* target_frame_time and never past the clock, so at every time the number of
\* frames produced since the loop started (at loop_start) is at most
\* floor((now - loop_start) / target_frame_time).
C17_DriftFreeCadence ==
  /\ frameCount <= (now - loop_start) \div target_frame_time
  /\ last_frame <= now
  /\ lpc # "setup" =>
       last_frame >= loop_start +
         target_frame_time * (frameCount + IF lpc = "draw" THEN 1 ELSE 0)

C17_Witness ==
  /\ frameCount = 2 /\ (now - loop_start) \div target_frame_time = 2
  /\ last_frame < now
  /\ lpc = "update"

====
